---- MODULE Spec2Model ----
(***************************************************************************)
(* Execution model of the seven C fixtures under examples/valid.           *)
(*                                                                         *)
(* Every fixture is a main() that (for four of them) fills a local array   *)
(* and then returns the value of one call.  The model executes the         *)
(* statements of each function one at a time on an explicit stack of       *)
(* activation records.  A program counter is the pair <<line, phase>> of   *)
(* the source line being executed and the position inside that line (the   *)
(* init / condition / step of a for, or before / after a call).            *)
(*                                                                         *)
(* The literals main passes (power(2, 4), the array contents, ...) are     *)
(* kept in `lit`; Init draws them from bounded sets that contain the       *)
(* literals written in the fixture, so that the functions are exercised on *)
(* every input of the set and on the fixture's own input.                  *)
(*                                                                         *)
(* Within the input sets every intermediate value stays far inside the     *)
(* range of a 32-bit int (at most 3^5, 999 and 2 * 5), so int arithmetic   *)
(* is modelled on the integers.                                            *)
(***************************************************************************)
EXTENDS Integers, Sequences, FiniteSets

VARIABLES
    prog,     \* the fixture being executed
    lit,      \* the literals appearing in main (arguments, array contents)
    mem,      \* the cells of main's local array, indexed from 0
    stack,    \* activation records, main's first, the running call's last
    ncalls,   \* calls entered and not yet returned
    result,   \* the value main returned (meaningful once done)
    done,     \* main has returned
    err       \* "none", or the runtime fault that stopped the program

vars == <<prog, lit, mem, stack, ncalls, result, done, err>>

Programs == {"program36", "program61", "program62", "program63",
             "program67", "program68", "program88"}

----------------------------------------------------------------------------
(* Bounds of the input sets.                                               *)

MaxBase == 2      \* power: base in -MaxBase .. MaxBase
MaxExp == 4       \* power: exp in 0 .. MaxExp
MaxVal == 1       \* linear_search / sums: array cells in 0 .. MaxVal (sums: -1 .. MaxVal)
MaxElem == 5      \* binary search: strictly ascending arrays over 0 .. MaxElem
MaxRev == 123     \* reverse_number: n in -MaxRev .. MaxRev
MaxPrime == 17    \* is_prime: n in -2 .. MaxPrime

(* Values an uninitialised int may hold before its first assignment.       *)
Indeterminate == {0, -7}

----------------------------------------------------------------------------
(* C integer arithmetic: / truncates toward zero, % takes the sign of the  *)
(* dividend.  Both are only applied to a nonzero divisor.                  *)

Abs(x) == IF x < 0 THEN -x ELSE x

Div(a, b) ==
    LET q == Abs(a) \div Abs(b)
    IN  IF (a < 0) # (b < 0) THEN -q ELSE q

Mod(a, b) == a - b * Div(a, b)

----------------------------------------------------------------------------
(* The array objects and the literals of each main.                        *)

ArrLen(p) ==
    CASE p = "program61" -> 5
      [] p = "program62" -> 5
      [] p = "program63" -> 4
      [] p = "program88" -> 3
      [] OTHER -> 0

Cells(p) == 0 .. ArrLen(p) - 1

(* The literals as written in the fixtures. *)
Main36 == [base |-> 2, exp |-> 4]
Main61 == [arr |-> [i \in 0..4 |-> 10 * (i + 1)], n |-> 5, key |-> 30]
Main62 == [arr |-> [i \in 0..4 |-> 2 * i + 1], left |-> 0, right |-> 4, key |-> 5]
Main63 == [arr |-> [i \in 0..3 |-> i + 1], n |-> 4]
Main67 == [n |-> 123]
Main68 == [n |-> 17]
Main88 == [numbers |-> [i \in 0..2 |-> 2 * (i + 1)], lo |-> 0, hi |-> 3]

Ascending(a, len) == \A i \in 0 .. len - 2 : a[i] < a[i + 1]

Inputs(p) ==
    CASE p = "program36" ->
           {Main36} \cup
           {[base |-> b, exp |-> e] : b \in -MaxBase .. MaxBase, e \in 0 .. MaxExp}
      [] p = "program61" ->
           {Main61} \cup
           {[arr |-> a, n |-> n, key |-> k] :
              a \in [0..4 -> 0 .. MaxVal], n \in 0 .. 5, k \in 0 .. MaxVal}
      [] p = "program62" ->
           {Main62} \cup
           {[arr |-> a, left |-> l, right |-> r, key |-> k] :
              a \in {f \in [0..4 -> 0 .. MaxElem] : Ascending(f, 5)},
              l \in 0 .. 4, r \in 0 .. 4, k \in 0 .. MaxElem}
      [] p = "program63" ->
           {Main63} \cup
           {[arr |-> a, n |-> n] : a \in [0..3 -> -1 .. MaxVal], n \in -1 .. 4}
      [] p = "program67" ->
           {Main67} \cup {[n |-> n] : n \in -MaxRev .. MaxRev}
      [] p = "program68" ->
           {Main68} \cup {[n |-> n] : n \in -2 .. MaxPrime}
      [] p = "program88" ->
           {Main88} \cup
           {x \in {[numbers |-> a, lo |-> l, hi |-> h] :
                     a \in [0..2 -> -1 .. MaxVal], l \in 0 .. 3, h \in 0 .. 3} :
              x.lo <= x.hi}

(* First line of main's body. *)
Entry(p) ==
    CASE p = "program36" -> 9
      [] p = "program61" -> 13
      [] p = "program62" -> 18
      [] p = "program63" -> 10
      [] p = "program67" -> 12
      [] p = "program68" -> 15
      [] p = "program88" -> 13

MainFrame(p) == [fn |-> "main", pc |-> <<Entry(p), 0>>, t |-> 0]

----------------------------------------------------------------------------
(* Stack discipline shared by all functions.                               *)

Top == stack[Len(stack)]

Running == err = "none" /\ ~done /\ stack # <<>>

At(p, f, line, phase) ==
    /\ Running
    /\ prog = p
    /\ Top.fn = f
    /\ Top.pc = <<line, phase>>

(* The running call executes a statement: its record becomes fr. *)
Step(fr) ==
    /\ stack' = [stack EXCEPT ![Len(stack)] = fr]
    /\ UNCHANGED <<prog, lit, mem, ncalls, result, done, err>>

Goto(line, phase) == Step([Top EXCEPT !.pc = <<line, phase>>])

(* Variant of Push: locals kept in storage shared by all invocations       *)
(* instead of a record per call, so the callee's parameters overwrite the  *)
(* caller's.                                                               *)
Shared(retpc, callee) ==
    Append([stack EXCEPT ![Len(stack)] =
              [f \in DOMAIN Top |->
                 IF f = "pc" THEN retpc
                 ELSE IF f \in DOMAIN callee \ {"fn", "t"} THEN callee[f]
                 ELSE Top[f]]],
           callee)

(* A call: the caller is suspended at retpc, the callee gets a new record. *)
Push(retpc, callee) ==
    Append([stack EXCEPT ![Len(stack)].pc = retpc], callee)

Call(retpc, callee) ==
    /\ stack' = Push(retpc, callee)
    /\ ncalls' = ncalls + 1
    /\ UNCHANGED <<prog, lit, mem, result, done, err>>

(* A return: the record is destroyed, the value goes to the caller's       *)
(* temporary, or becomes the program result when main returns.             *)
Return(val) ==
    /\ ncalls' = ncalls - 1
    /\ IF Len(stack) = 1
       THEN /\ stack' = <<>>
            /\ result' = val
            /\ done' = TRUE
       ELSE /\ stack' = [SubSeq(stack, 1, Len(stack) - 1)
                           EXCEPT ![Len(stack) - 1].t = val]
            /\ UNCHANGED <<result, done>>
    /\ UNCHANGED <<prog, lit, mem, err>>

Fault(e) ==
    /\ err' = e
    /\ UNCHANGED <<prog, lit, mem, stack, ncalls, result, done>>

InBounds(p) == p \in DOMAIN mem

----------------------------------------------------------------------------
(* main's array initialisation: the statement on line first + k stores the *)
(* k-th literal into cell k and falls through to the next line.            *)

ArrStore(first, k, val) ==
    /\ Top.pc = <<first + k, 0>>
    /\ mem' = [mem EXCEPT ![k] = val]
    /\ stack' = [stack EXCEPT ![Len(stack)].pc = <<first + k + 1, 0>>]
    /\ UNCHANGED <<prog, lit, ncalls, result, done, err>>

----------------------------------------------------------------------------
(* program36.c                                                             *)

powerFrame(b, e) == [fn |-> "power", pc |-> <<2, 0>>, base |-> b, exp |-> e, t |-> 0]

main36_L9_call ==
    /\ At("program36", "main", 9, 0)
    /\ Call(<<9, 1>>, powerFrame(lit.base, lit.exp))

main36_L9_ret ==
    /\ At("program36", "main", 9, 1)
    /\ Return(Top.t)

power_L2 ==
    /\ At("program36", "power", 2, 0)
    /\ IF Top.exp = 0 THEN Goto(3, 0) ELSE Goto(5, 0)

(* Variant of power_L3: the base case returns 0. *)
power_L3_zero ==
    /\ At("program36", "power", 3, 0)
    /\ Return(0)

power_L3 ==
    /\ At("program36", "power", 3, 0)
    /\ Return(1)

power_L5_call ==
    /\ At("program36", "power", 5, 0)
    /\ Call(<<5, 1>>, powerFrame(Top.base, Top.exp - 1))

power_L5_ret ==
    /\ At("program36", "power", 5, 1)
    /\ Return(Top.base * Top.t)

----------------------------------------------------------------------------
(* program61.c                                                             *)

linear_searchFrame(a, n, k, g) ==
    [fn |-> "linear_search", pc |-> <<3, 0>>, arr |-> a, n |-> n, key |-> k, i |-> g]

main61_L13_17 ==
    /\ Running
    /\ prog = "program61"
    /\ Top.fn = "main"
    /\ \E k \in 0 .. 4 : ArrStore(13, k, lit.arr[k])

main61_L18_call ==
    /\ At("program61", "main", 18, 0)
    /\ \E g \in Indeterminate :
          Call(<<18, 1>>, linear_searchFrame(0, lit.n, lit.key, g))

main61_L18_ret ==
    /\ At("program61", "main", 18, 1)
    /\ Return(Top.t)

(* Variant of linear_search_L3_init: the scan starts at index 1. *)
linear_search_L3_init_one ==
    /\ At("program61", "linear_search", 3, 0)
    /\ Step([Top EXCEPT !.i = 1, !.pc = <<3, 1>>])

linear_search_L3_init ==
    /\ At("program61", "linear_search", 3, 0)
    /\ Step([Top EXCEPT !.i = 0, !.pc = <<3, 1>>])

(* Variant of linear_search_L3_cond: the loop runs while i <= n. *)
linear_search_L3_cond_le ==
    /\ At("program61", "linear_search", 3, 1)
    /\ IF Top.i <= Top.n THEN Goto(4, 0) ELSE Goto(8, 0)

linear_search_L3_cond ==
    /\ At("program61", "linear_search", 3, 1)
    /\ IF Top.i < Top.n THEN Goto(4, 0) ELSE Goto(8, 0)

linear_search_L4 ==
    /\ At("program61", "linear_search", 4, 0)
    /\ IF ~InBounds(Top.arr + Top.i)
       THEN Fault("OutOfBounds")
       ELSE IF mem[Top.arr + Top.i] = Top.key THEN Goto(5, 0) ELSE Goto(3, 2)

linear_search_L5 ==
    /\ At("program61", "linear_search", 5, 0)
    /\ Return(Top.i)

linear_search_L3_step ==
    /\ At("program61", "linear_search", 3, 2)
    /\ Step([Top EXCEPT !.i = Top.i + 1, !.pc = <<3, 1>>])

linear_search_L8 ==
    /\ At("program61", "linear_search", 8, 0)
    /\ Return(-1)

----------------------------------------------------------------------------
(* program62.c                                                             *)

binary_search_recursiveFrame(a, l, r, k, g) ==
    [fn |-> "binary_search_recursive", pc |-> <<3, 0>>,
     arr |-> a, left |-> l, right |-> r, key |-> k, mid |-> g, t |-> 0]

main62_L18_22 ==
    /\ Running
    /\ prog = "program62"
    /\ Top.fn = "main"
    /\ \E k \in 0 .. 4 : ArrStore(18, k, lit.arr[k])

main62_L23_call ==
    /\ At("program62", "main", 23, 0)
    /\ \E g \in Indeterminate :
          Call(<<23, 1>>,
               binary_search_recursiveFrame(0, lit.left, lit.right, lit.key, g))

main62_L23_ret ==
    /\ At("program62", "main", 23, 1)
    /\ Return(Top.t)

binary_search_recursive_L3 ==
    /\ At("program62", "binary_search_recursive", 3, 0)
    /\ IF Top.left > Top.right THEN Goto(4, 0) ELSE Goto(6, 0)

binary_search_recursive_L4 ==
    /\ At("program62", "binary_search_recursive", 4, 0)
    /\ Return(-1)

binary_search_recursive_L6 ==
    /\ At("program62", "binary_search_recursive", 6, 0)
    /\ Step([Top EXCEPT !.mid = Div(Top.left + Top.right, 2), !.pc = <<7, 0>>])

binary_search_recursive_L7 ==
    /\ At("program62", "binary_search_recursive", 7, 0)
    /\ IF ~InBounds(Top.arr + Top.mid)
       THEN Fault("OutOfBounds")
       ELSE IF mem[Top.arr + Top.mid] = Top.key THEN Goto(8, 0) ELSE Goto(10, 0)

binary_search_recursive_L8 ==
    /\ At("program62", "binary_search_recursive", 8, 0)
    /\ Return(Top.mid)

(* Variant of binary_search_recursive_L10: the comparison is reversed. *)
binary_search_recursive_L10_lt ==
    /\ At("program62", "binary_search_recursive", 10, 0)
    /\ IF ~InBounds(Top.arr + Top.mid)
       THEN Fault("OutOfBounds")
       ELSE IF mem[Top.arr + Top.mid] < Top.key THEN Goto(11, 0) ELSE Goto(13, 0)

binary_search_recursive_L10 ==
    /\ At("program62", "binary_search_recursive", 10, 0)
    /\ IF ~InBounds(Top.arr + Top.mid)
       THEN Fault("OutOfBounds")
       ELSE IF mem[Top.arr + Top.mid] > Top.key THEN Goto(11, 0) ELSE Goto(13, 0)

binary_search_recursive_L11_call ==
    /\ At("program62", "binary_search_recursive", 11, 0)
    /\ \E g \in Indeterminate :
          Call(<<11, 1>>,
               binary_search_recursiveFrame(Top.arr, Top.left, Top.mid - 1, Top.key, g))

binary_search_recursive_L11_ret ==
    /\ At("program62", "binary_search_recursive", 11, 1)
    /\ Return(Top.t)

binary_search_recursive_L13_call ==
    /\ At("program62", "binary_search_recursive", 13, 0)
    /\ \E g \in Indeterminate :
          Call(<<13, 1>>,
               binary_search_recursiveFrame(Top.arr, Top.mid + 1, Top.right, Top.key, g))

binary_search_recursive_L13_ret ==
    /\ At("program62", "binary_search_recursive", 13, 1)
    /\ Return(Top.t)

----------------------------------------------------------------------------
(* program63.c                                                             *)
(* C leaves the order of the two operands of + on line 5 unspecified: the  *)
(* cell may be read before the recursive call (phases 0, 1, 2) or after it *)
(* (phases 0, 3).  The value read is kept in the record's temporary a.     *)

sum_recursiveFrame(a, n) ==
    [fn |-> "sum_recursive", pc |-> <<2, 0>>, arr |-> a, n |-> n, a |-> 0, t |-> 0]

main63_L10_13 ==
    /\ Running
    /\ prog = "program63"
    /\ Top.fn = "main"
    /\ \E k \in 0 .. 3 : ArrStore(10, k, lit.arr[k])

main63_L14_call ==
    /\ At("program63", "main", 14, 0)
    /\ Call(<<14, 1>>, sum_recursiveFrame(0, lit.n))

main63_L14_ret ==
    /\ At("program63", "main", 14, 1)
    /\ Return(Top.t)

(* Variant of sum_recursive_L2: the recursion stops at n <= 1. *)
sum_recursive_L2_le1 ==
    /\ At("program63", "sum_recursive", 2, 0)
    /\ IF Top.n <= 1 THEN Goto(3, 0) ELSE Goto(5, 0)

sum_recursive_L2 ==
    /\ At("program63", "sum_recursive", 2, 0)
    /\ IF Top.n <= 0 THEN Goto(3, 0) ELSE Goto(5, 0)

sum_recursive_L3 ==
    /\ At("program63", "sum_recursive", 3, 0)
    /\ Return(0)

sum_recursive_L5_read ==
    /\ At("program63", "sum_recursive", 5, 0)
    /\ IF ~InBounds(Top.arr + (Top.n - 1))
       THEN Fault("OutOfBounds")
       ELSE Step([Top EXCEPT !.a = mem[Top.arr + (Top.n - 1)], !.pc = <<5, 1>>])

sum_recursive_L5_call ==
    /\ \/ At("program63", "sum_recursive", 5, 1)
       \/ At("program63", "sum_recursive", 5, 0)
    /\ Call(IF Top.pc = <<5, 1>> THEN <<5, 2>> ELSE <<5, 3>>,
            sum_recursiveFrame(Top.arr, Top.n - 1))

sum_recursive_L5_ret ==
    /\ At("program63", "sum_recursive", 5, 2)
    /\ Return(Top.a + Top.t)

sum_recursive_L5_read_ret ==
    /\ At("program63", "sum_recursive", 5, 3)
    /\ IF ~InBounds(Top.arr + (Top.n - 1))
       THEN Fault("OutOfBounds")
       ELSE Return(mem[Top.arr + (Top.n - 1)] + Top.t)

----------------------------------------------------------------------------
(* program67.c                                                             *)

reverse_numberFrame(n, g) ==
    [fn |-> "reverse_number", pc |-> <<3, 0>>, n |-> n, reversed |-> g]

main67_L12_call ==
    /\ At("program67", "main", 12, 0)
    /\ \E g \in Indeterminate : Call(<<12, 1>>, reverse_numberFrame(lit.n, g))

main67_L12_ret ==
    /\ At("program67", "main", 12, 1)
    /\ Return(Top.t)

reverse_number_L3 ==
    /\ At("program67", "reverse_number", 3, 0)
    /\ Step([Top EXCEPT !.reversed = 0, !.pc = <<4, 0>>])

reverse_number_L4 ==
    /\ At("program67", "reverse_number", 4, 0)
    /\ IF Top.n # 0 THEN Goto(5, 0) ELSE Goto(8, 0)

(* Variant of reverse_number_L5: reversed is not shifted by a digit. *)
reverse_number_L5_add ==
    /\ At("program67", "reverse_number", 5, 0)
    /\ Step([Top EXCEPT !.reversed = Top.reversed + Mod(Top.n, 10),
                        !.pc = <<6, 0>>])

reverse_number_L5 ==
    /\ At("program67", "reverse_number", 5, 0)
    /\ Step([Top EXCEPT !.reversed = Top.reversed * 10 + Mod(Top.n, 10),
                        !.pc = <<6, 0>>])

reverse_number_L6 ==
    /\ At("program67", "reverse_number", 6, 0)
    /\ Step([Top EXCEPT !.n = Div(Top.n, 10), !.pc = <<4, 0>>])

reverse_number_L8 ==
    /\ At("program67", "reverse_number", 8, 0)
    /\ Return(Top.reversed)

----------------------------------------------------------------------------
(* program68.c                                                             *)

is_primeFrame(n, g) == [fn |-> "is_prime", pc |-> <<3, 0>>, n |-> n, i |-> g]

main68_L15_call ==
    /\ At("program68", "main", 15, 0)
    /\ \E g \in Indeterminate : Call(<<15, 1>>, is_primeFrame(lit.n, g))

main68_L15_ret ==
    /\ At("program68", "main", 15, 1)
    /\ Return(Top.t)

(* Variant of is_prime_L3: only n <= 0 is rejected. *)
is_prime_L3_le0 ==
    /\ At("program68", "is_prime", 3, 0)
    /\ IF Top.n <= 0 THEN Goto(4, 0) ELSE Goto(6, 0)

is_prime_L3 ==
    /\ At("program68", "is_prime", 3, 0)
    /\ IF Top.n <= 1 THEN Goto(4, 0) ELSE Goto(6, 0)

is_prime_L4 ==
    /\ At("program68", "is_prime", 4, 0)
    /\ Return(0)

is_prime_L6_init ==
    /\ At("program68", "is_prime", 6, 0)
    /\ Step([Top EXCEPT !.i = 2, !.pc = <<6, 1>>])

is_prime_L6_cond ==
    /\ At("program68", "is_prime", 6, 1)
    /\ IF Top.i < Top.n THEN Goto(7, 0) ELSE Goto(11, 0)

is_prime_L7 ==
    /\ At("program68", "is_prime", 7, 0)
    /\ IF Top.i = 0
       THEN Fault("DivisionByZero")
       ELSE IF Mod(Top.n, Top.i) = 0 THEN Goto(8, 0) ELSE Goto(6, 2)

is_prime_L8 ==
    /\ At("program68", "is_prime", 8, 0)
    /\ Return(0)

(* Variant of is_prime_L6_step: i is not incremented. *)
is_prime_L6_step_stuck ==
    /\ At("program68", "is_prime", 6, 2)
    /\ Step([Top EXCEPT !.pc = <<6, 1>>])

is_prime_L6_step ==
    /\ At("program68", "is_prime", 6, 2)
    /\ Step([Top EXCEPT !.i = Top.i + 1, !.pc = <<6, 1>>])

is_prime_L11 ==
    /\ At("program68", "is_prime", 11, 0)
    /\ Return(1)

----------------------------------------------------------------------------
(* program88.c                                                             *)
(* A pointer into numbers is the index of the cell it points to; the       *)
(* one-past-the-end pointer numbers + 3 is index 3, outside DOMAIN mem.    *)

sumFrame(s, e, g) == [fn |-> "sum", pc |-> <<3, 0>>, start |-> s, end |-> e, total |-> g]

main88_L13_15 ==
    /\ Running
    /\ prog = "program88"
    /\ Top.fn = "main"
    /\ \E k \in 0 .. 2 : ArrStore(13, k, lit.numbers[k])

main88_L16_call ==
    /\ At("program88", "main", 16, 0)
    /\ \E g \in Indeterminate : Call(<<16, 1>>, sumFrame(0 + lit.lo, 0 + lit.hi, g))

main88_L16_ret ==
    /\ At("program88", "main", 16, 1)
    /\ Return(Top.t)

sum_L3 ==
    /\ At("program88", "sum", 3, 0)
    /\ Step([Top EXCEPT !.total = 0, !.pc = <<4, 0>>])

sum_L4 ==
    /\ At("program88", "sum", 4, 0)
    /\ IF Top.start < Top.end THEN Goto(5, 0) ELSE Goto(8, 0)

sum_L5 ==
    /\ At("program88", "sum", 5, 0)
    /\ IF ~InBounds(Top.start)
       THEN Fault("OutOfBounds")
       ELSE Step([Top EXCEPT !.total = Top.total + mem[Top.start], !.pc = <<6, 0>>])

(* Variant of sum_L6: start advances by two elements. *)
sum_L6_two ==
    /\ At("program88", "sum", 6, 0)
    /\ Step([Top EXCEPT !.start = Top.start + 2, !.pc = <<4, 0>>])

sum_L6 ==
    /\ At("program88", "sum", 6, 0)
    /\ Step([Top EXCEPT !.start = Top.start + 1, !.pc = <<4, 0>>])

sum_L8 ==
    /\ At("program88", "sum", 8, 0)
    /\ Return(Top.total)

----------------------------------------------------------------------------

Init ==
    /\ prog \in Programs
    /\ lit \in Inputs(prog)
    /\ mem \in [Cells(prog) -> Indeterminate]    \* int arr[N]; not yet assigned
    /\ stack = <<MainFrame(prog)>>
    /\ ncalls = 1
    /\ result = 0
    /\ done = FALSE
    /\ err = "none"

Next ==
    \/ main36_L9_call
    \/ main36_L9_ret
    \/ power_L2
    \/ power_L3
    \/ power_L5_call
    \/ power_L5_ret
    \/ main61_L13_17
    \/ main61_L18_call
    \/ main61_L18_ret
    \/ linear_search_L3_init
    \/ linear_search_L3_cond
    \/ linear_search_L4
    \/ linear_search_L5
    \/ linear_search_L3_step
    \/ linear_search_L8
    \/ main62_L18_22
    \/ main62_L23_call
    \/ main62_L23_ret
    \/ binary_search_recursive_L3
    \/ binary_search_recursive_L4
    \/ binary_search_recursive_L6
    \/ binary_search_recursive_L7
    \/ binary_search_recursive_L8
    \/ binary_search_recursive_L10
    \/ binary_search_recursive_L11_call
    \/ binary_search_recursive_L11_ret
    \/ binary_search_recursive_L13_call
    \/ binary_search_recursive_L13_ret
    \/ main63_L10_13
    \/ main63_L14_call
    \/ main63_L14_ret
    \/ sum_recursive_L2
    \/ sum_recursive_L3
    \/ sum_recursive_L5_read
    \/ sum_recursive_L5_call
    \/ sum_recursive_L5_ret
    \/ sum_recursive_L5_read_ret
    \/ main67_L12_call
    \/ main67_L12_ret
    \/ reverse_number_L3
    \/ reverse_number_L4
    \/ reverse_number_L5
    \/ reverse_number_L6
    \/ reverse_number_L8
    \/ main68_L15_call
    \/ main68_L15_ret
    \/ is_prime_L3
    \/ is_prime_L4
    \/ is_prime_L6_init
    \/ is_prime_L6_cond
    \/ is_prime_L7
    \/ is_prime_L8
    \/ is_prime_L6_step
    \/ is_prime_L11
    \/ main88_L13_15
    \/ main88_L16_call
    \/ main88_L16_ret
    \/ sum_L3
    \/ sum_L4
    \/ sum_L5
    \/ sum_L6
    \/ sum_L8

Spec == Init /\ [][Next]_vars

FairSpec == Spec /\ WF_vars(Next)

----------------------------------------------------------------------------
(* Reference values, computed independently of the execution above.        *)

RECURSIVE Pow(_, _)
Pow(b, e) == IF e = 0 THEN 1 ELSE b * Pow(b, e - 1)

(* Smallest index below n holding key, or -1. *)
FirstIndex(arr, n, key) ==
    IF \E i \in 0 .. n - 1 : arr[i] = key
    THEN CHOOSE i \in 0 .. n - 1 :
            arr[i] = key /\ \A j \in 0 .. i - 1 : arr[j] # key
    ELSE -1

(* The iterative loop  acc = 0; for (i = 0; i < n; i++) acc += arr[i]. *)
RECURSIVE IterLoop(_, _, _, _)
IterLoop(arr, n, i, acc) ==
    IF i < n THEN IterLoop(arr, n, i + 1, acc + arr[i]) ELSE acc

(* Sum of the cells with index in [lo, hi). *)
RECURSIVE RangeSum(_, _, _)
RangeSum(a, lo, hi) ==
    IF lo >= hi THEN 0 ELSE RangeSum(a, lo, hi - 1) + a[hi - 1]

(* Decimal digits of n >= 0, most significant first, and back. *)
RECURSIVE Digits(_)
Digits(n) == IF n < 10 THEN <<n>> ELSE Append(Digits(n \div 10), n % 10)

Reverse(sq) == [i \in 1 .. Len(sq) |-> sq[Len(sq) + 1 - i]]

RECURSIVE NumOf(_)
NumOf(sq) ==
    IF sq = <<>> THEN 0
    ELSE 10 * NumOf(SubSeq(sq, 1, Len(sq) - 1)) + sq[Len(sq)]

IsPrime(n) == n >= 2 /\ \A d \in 2 .. n - 1 : n % d # 0

(* A record's parameters and locals: everything but its control state. *)
Locals(fr) == [f \in DOMAIN fr \ {"pc", "t"} |-> fr[f]]

Recursive == {"program36", "program62", "program63"}

----------------------------------------------------------------------------
(* C1: when program36 has finished, the result is base raised to the power *)
(* exp (1 for exp = 0), and it is 16 for the fixture's power(2, 4).        *)
Thm_C1 ==
    (prog = "program36" /\ done) =>
        /\ result = Pow(lit.base, lit.exp)
        /\ (lit.exp = 0 => result = 1)
        /\ (lit = Main36 => result = 16)

Wit_C1 == prog = "program36" /\ done /\ lit = Main36 /\ result = 16

(* C2: when program61 has finished, the result is the smallest index       *)
(* i < n with arr[i] = key, or -1 when there is none; for n = 0 the cell   *)
(* comparison on line 4 is never reached; the fixture's search yields 2.   *)
Thm_C2 ==
    /\ (prog = "program61" /\ done) =>
          /\ result = FirstIndex(lit.arr, lit.n, lit.key)
          /\ (lit = Main61 => result = 2)
    /\ (prog = "program61" /\ Running /\ Top.fn = "linear_search" /\ Top.pc[1] = 4) =>
          lit.n # 0

Wit_C2 == prog = "program61" /\ done /\ lit = Main61 /\ result = 2

(* C3: when program62 has finished on a strictly ascending array, the      *)
(* result is an index m in left..right with arr[m] = key if key occurs in  *)
(* arr[left..right], and -1 otherwise (also when left > right); the        *)
(* fixture's search yields 2.                                              *)
Thm_C3 ==
    (prog = "program62" /\ done /\ Ascending(lit.arr, 5)) =>
        /\ IF \E m \in lit.left .. lit.right : lit.arr[m] = lit.key
           THEN /\ result \in lit.left .. lit.right
                /\ lit.arr[result] = lit.key
           ELSE result = -1
        /\ (lit = Main62 => result = 2)

Wit_C3 ==
    /\ prog = "program62" /\ done /\ result = 3
    /\ lit.left = 1 /\ lit.right = 4 /\ lit.arr[3] = lit.key

(* C4: when program63 has finished, the result of the recursion equals the *)
(* value of the iterative loop over arr[0..n-1] (0 for n <= 0); the        *)
(* fixture yields 10.                                                      *)
Thm_C4 ==
    (prog = "program63" /\ done) =>
        /\ result = IterLoop(lit.arr, lit.n, 0, 0)
        /\ (lit.n <= 0 => result = 0)
        /\ (lit = Main63 => result = 10)

Wit_C4 == prog = "program63" /\ done /\ lit = Main63 /\ result = 10

(* C5: when program88 has finished, the result is the sum of the cells     *)
(* with index in [start, end), 12 for the fixture; and every step of sum   *)
(* leaves end alone and changes start only on line 6, by exactly one.      *)
C5_Result ==
    (prog = "program88" /\ done) =>
        /\ result = RangeSum(lit.numbers, lit.lo, lit.hi)
        /\ (lit = Main88 => result = 12)

C5_Advance ==
    (prog = "program88" /\ Running /\ Top.fn = "sum" /\ Len(stack') = Len(stack)) =>
        /\ stack'[Len(stack)].end = Top.end
        /\ stack'[Len(stack)].start =
              IF Top.pc = <<6, 0>> THEN Top.start + 1 ELSE Top.start

Thm_C5 == [](C5_Result) /\ [][C5_Advance]_vars

Wit_C5 == prog = "program88" /\ done /\ lit = Main88 /\ result = 12

(* C6: every execution of every fixture eventually reaches the state where *)
(* main has returned, given that the running program keeps taking steps.   *)
Thm_C6 == <>(done /\ stack = <<>> /\ err = "none")

Wit_C6 == prog = "program67" /\ done /\ lit.n < 0

(* C7: when program67 has finished on n >= 0, the result is the number     *)
(* whose decimal digits are those of n reversed; 321 for the fixture.      *)
Thm_C7 ==
    (prog = "program67" /\ done /\ lit.n >= 0) =>
        /\ result = NumOf(Reverse(Digits(lit.n)))
        /\ (lit = Main67 => result = 321)

Wit_C7 == prog = "program67" /\ done /\ lit = Main67 /\ result = 321

(* C8: when program68 has finished, the result is 1 if n is prime and 0 if *)
(* it is not (in particular for every n <= 1); 1 for the fixture's 17.     *)
Thm_C8 ==
    (prog = "program68" /\ done) =>
        /\ result = IF IsPrime(lit.n) THEN 1 ELSE 0
        /\ (lit.n <= 1 => result = 0)
        /\ (lit = Main68 => result = 1)

Wit_C8 == prog = "program68" /\ done /\ lit = Main68 /\ result = 1

(* C9: in the recursive fixtures there are always as many records as calls *)
(* in progress and none once the result exists; a step never changes the   *)
(* parameters, locals or resumption point of a suspended caller, a call    *)
(* adds one record and leaves its caller's parameters and locals alone, a  *)
(* return removes one, and the result is produced by removing main's       *)
(* record, the last one.                                                   *)
C9_Records ==
    prog \in Recursive =>
        /\ Len(stack) = ncalls
        /\ (done => stack = <<>>)

C9_Frames ==
    prog \in Recursive =>
        /\ \A i \in 1 .. Len(stack) - 1 :
              i <= Len(stack') =>
                 /\ Locals(stack'[i]) = Locals(stack[i])
                 /\ stack'[i].pc = stack[i].pc
        /\ Len(stack') > Len(stack) =>
              /\ Len(stack') = Len(stack) + 1
              /\ ncalls' = ncalls + 1
              /\ Locals(stack'[Len(stack)]) = Locals(Top)
              /\ stack'[Len(stack)].t = Top.t
        /\ Len(stack') < Len(stack) =>
              /\ Len(stack') = Len(stack) - 1
              /\ ncalls' = ncalls - 1
        /\ (done' /\ ~done) =>
              /\ Len(stack) = 1
              /\ Top.fn = "main"
              /\ stack' = <<>>

Thm_C10 ==
    /\ err = "none"
    /\ (Running /\ Top.fn = "binary_search_recursive" /\ Top.pc[1] \in {7, 10}) =>
          /\ Top.left <= Top.mid /\ Top.mid <= Top.right
          /\ InBounds(Top.arr + Top.mid)
    /\ (Running /\ Top.fn = "sum_recursive" /\ Top.pc \in {<<5, 0>>, <<5, 3>>}) =>
          /\ Top.n >= 1
          /\ InBounds(Top.arr + (Top.n - 1))
    /\ (Running /\ Top.fn = "linear_search" /\ Top.pc[1] = 4) =>
          /\ 0 <= Top.i /\ Top.i < Top.n
          /\ InBounds(Top.arr + Top.i)
    /\ (Running /\ Top.fn = "sum") =>
          /\ Top.end \in 0 .. ArrLen(prog)
          /\ Top.pc[1] = 5 => (InBounds(Top.start) /\ Top.start # Top.end)
    /\ (Running /\ Top.fn = "is_prime" /\ Top.pc[1] = 7) => Top.i >= 2

Wit_C10 ==
    /\ prog = "program88" /\ lit = Main88 /\ Running
    /\ Top.fn = "sum" /\ Top.pc = <<4, 0>>
    /\ Top.start = 3 /\ Top.end = 3 /\ ~InBounds(Top.end)

====
